---- MODULE Spec2Model ----
(***************************************************************************)
(* A model of cli-focus: the AudioManager (src/audio_manager.py), the      *)
(* StatsManager and FocusApp.run (src/main.py).                            *)
(*                                                                         *)
(* Units.  Time is counted in ticks of 0.1 s, the period of the Running    *)
(* loop (time.sleep(0.1)); a statement that does not block takes no time.  *)
(* Volumes are counted in percent (master_volume 1.0 is 100); a texture's  *)
(* volume is master_volume * scale with the scale in thousandths, so it is *)
(* counted in 1/100000.  Durations entered in minutes are counted in       *)
(* hundredths of a minute.                                                 *)
(***************************************************************************)
EXTENDS Integers, Sequences, FiniteSets, TLC

(***************************************************************************)
(* Bounds of the model.                                                    *)
(***************************************************************************)
MaxNow == 700        \* the scheduler's callers stop advancing the clock here (ticks)
MaxPlaying == 2      \* the mixer's callers start at most this many loops at a time
MaxSel == 2          \* ids in one menu selection
MaxDurCm == 2        \* longest duration entered, in hundredths of a minute
MaxKeys == 1         \* keys typed during one session
MaxInterrupts == 1   \* interrupts signalled during one session
MaxDays == 4         \* days the statistics' callers let pass
MaxTotal == 200      \* the callers of update_time stop at this total

(***************************************************************************)
(* Characters.  TLA+ strings cannot be indexed, so every string whose      *)
(* characters the code looks at is given with its characters.              *)
(***************************************************************************)
CharsOf ==
          "City_Night.wav" :> <<"C", "i", "t", "y", "_", "N", "i", "g", "h", "t", ".", "w", "a", "v">>
       @@ "Rain.ogg" :> <<"R", "a", "i", "n", ".", "o", "g", "g">>
       @@ "fire.mp3" :> <<"f", "i", "r", "e", ".", "m", "p", "3">>
       @@ "gentle-rain.mp3" :> <<"g", "e", "n", "t", "l", "e", "-", "r", "a", "i", "n", ".", "m", "p", "3">>
       @@ "sea-breeze.mp3" :> <<"s", "e", "a", "-", "b", "r", "e", "e", "z", "e", ".", "m", "p", "3">>
       @@ "typing-sound.mp3" :> <<"t", "y", "p", "i", "n", "g", "-", "s", "o", "u", "n", "d", ".", "m", "p", "3">>
       @@ "missing.mp3" :> <<"m", "i", "s", "s", "i", "n", "g", ".", "m", "p", "3">>
       @@ "Brown Noise" :> <<"B", "r", "o", "w", "n", " ", "N", "o", "i", "s", "e">>
       @@ "City" :> <<"C", "i", "t", "y">>
       @@ "Coffee Shop" :> <<"C", "o", "f", "f", "e", "e", " ", "S", "h", "o", "p">>
       @@ "Fire" :> <<"F", "i", "r", "e">>
       @@ "Flowing Water" :> <<"F", "l", "o", "w", "i", "n", "g", " ", "W", "a", "t", "e", "r">>
       @@ "Gentle Rain" :> <<"G", "e", "n", "t", "l", "e", " ", "R", "a", "i", "n">>
       @@ "Lofi" :> <<"L", "o", "f", "i">>
       @@ "Omm" :> <<"O", "m", "m">>
       @@ "Rain Sounds" :> <<"R", "a", "i", "n", " ", "S", "o", "u", "n", "d", "s">>
       @@ "Sea Wave" :> <<"S", "e", "a", " ", "W", "a", "v", "e">>
       @@ "rain" :> <<"r", "a", "i", "n">>
       @@ "RAIN" :> <<"R", "A", "I", "N">>
       @@ "xyz" :> <<"x", "y", "z">>
       @@ "low" :> <<"l", "o", "w">>
       @@ "medium" :> <<"m", "e", "d", "i", "u", "m">>
       @@ "high" :> <<"h", "i", "g", "h">>
       @@ "HIGH" :> <<"H", "I", "G", "H">>
       @@ "often" :> <<"o", "f", "t", "e", "n">>

\* str.lower() on one character (ASCII letters; every other character is kept).
LowerChar(c) ==
    CASE c = "A" -> "a" [] c = "B" -> "b" [] c = "C" -> "c" [] c = "D" -> "d"
      [] c = "E" -> "e" [] c = "F" -> "f" [] c = "G" -> "g" [] c = "H" -> "h"
      [] c = "I" -> "i" [] c = "J" -> "j" [] c = "K" -> "k" [] c = "L" -> "l"
      [] c = "M" -> "m" [] c = "N" -> "n" [] c = "O" -> "o" [] c = "P" -> "p"
      [] c = "Q" -> "q" [] c = "R" -> "r" [] c = "S" -> "s" [] c = "T" -> "t"
      [] c = "U" -> "u" [] c = "V" -> "v" [] c = "W" -> "w" [] c = "X" -> "x"
      [] c = "Y" -> "y" [] c = "Z" -> "z" [] OTHER -> c

\* str.lower()
Lower(s) == [i \in 1..Len(s) |-> LowerChar(s[i])]

\* str.replace(a, b) for single characters a and b
ReplaceChar(s, a, b) == [i \in 1..Len(s) |-> IF s[i] = a THEN b ELSE s[i]]

\* os.path.splitext(name)[0] for a name without directory separators: the
\* extension starts at the last dot, unless only dots precede that dot.
SplitextRoot(s) ==
    LET dots == {i \in 1..Len(s) : s[i] = "."}
        last == IF dots = {} THEN 0 ELSE CHOOSE i \in dots : \A j \in dots : j <= i
        lead == \A j \in 1..(last - 1) : s[j] = "."
    IN  IF last = 0 \/ lead THEN s ELSE SubSeq(s, 1, last - 1)

\* Python's "a in b" on strings
IsSubstring(a, b) ==
    \E i \in 0..(Len(b) - Len(a)) : SubSeq(b, i + 1, i + Len(a)) = a

(***************************************************************************)
(* TEXTURE_MAP, in the order the dict literal lists it.                    *)
(***************************************************************************)
TEXTURE_MAP == <<
    [key |-> "Brown Noise", textures |-> <<"keyboard.mp3", "page-turn.mp3", "vinyl-crackle.mp3">>],
    [key |-> "City", textures |-> <<"distant-ambulance-siren.mp3", "distant-train.mp3", "bike-bell.mp3", "door-open-close-with-bell.mp3">>],
    [key |-> "Coffee Shop", textures |-> <<"espresso-steam.mp3", "pouring-coffee.mp3", "spoon-and-cup.mp3", "cup-and-saucer.mp3", "cash-register.mp3">>],
    [key |-> "Fire", textures |-> <<"page-turn.mp3", "vinyl-crackle.mp3", "crickets.mp3", "owl.mp3", "winter-wind.mp3">>],
    [key |-> "Flowing Water", textures |-> <<"frog.mp3", "wind-chimes.mp3", "distant-thunder.mp3">>],
    [key |-> "Gentle Rain", textures |-> <<"distant-thunder.mp3", "winter-wind.mp3", "wind-chimes.mp3">>],
    [key |-> "Lofi", textures |-> <<"vinyl-crackle.mp3", "keyboard.mp3", "page-turn.mp3", "big-bell.mp3">>],
    [key |-> "Omm", textures |-> <<"big-bell.mp3", "wind-chimes.mp3">>],
    [key |-> "Rain Sounds", textures |-> <<"distant-thunder.mp3", "winter-wind.mp3">>],
    [key |-> "Sea Wave", textures |-> <<"seagull.mp3", "distant-foghorn.mp3", "winter-wind.mp3">>] >>

\* loop_name_clean of play_random_texture
LoopNameClean(loop_file) ==
    Lower(ReplaceChar(ReplaceChar(SplitextRoot(CharsOf[loop_file]), "_", " "), "-", " "))

\* the test of play_random_texture's inner loop, one way only
MatchesOneWay(loop_file, key) ==
    IsSubstring(Lower(CharsOf[key]), LoopNameClean(loop_file))

\* the part of a name before its first space
FirstWord(s) ==
    LET spaces == {i \in 1..Len(s) : s[i] = " "}
    IN  IF spaces = {} THEN s
        ELSE SubSeq(s, 1, (CHOOSE i \in spaces : \A j \in spaces : i <= j) - 1)

\* a test that matches a loop and a category that begin with the same word
MatchesFirstWord(loop_file, key) ==
    FirstWord(Lower(CharsOf[key])) = FirstWord(LoopNameClean(loop_file))

\* the test of play_random_texture's inner loop
Matches(loop_file, key) ==
    \/ IsSubstring(Lower(CharsOf[key]), LoopNameClean(loop_file))
    \/ IsSubstring(LoopNameClean(loop_file), Lower(CharsOf[key]))

\* valid_textures.extend(textures) over the categories from index k on
RECURSIVE ExtendFrom(_, _)
ExtendFrom(loop_file, k) ==
    IF k > Len(TEXTURE_MAP) THEN <<>>
    ELSE (IF Matches(loop_file, TEXTURE_MAP[k].key) THEN TEXTURE_MAP[k].textures ELSE <<>>)
         \o ExtendFrom(loop_file, k + 1)


(***************************************************************************)
(* The installation: the files the three scans of AudioManager.__init__    *)
(* find.  winter-wind.mp3 is named by TEXTURE_MAP and is not installed.    *)
(***************************************************************************)
LoopFiles == {"City_Night.wav", "Rain.ogg", "fire.mp3", "gentle-rain.mp3",
              "sea-breeze.mp3", "typing-sound.mp3"}

TextureFiles ==
    UNION {{TEXTURE_MAP[k].textures[i] : i \in 1..Len(TEXTURE_MAP[k].textures)}
              : k \in 1..Len(TEXTURE_MAP)} \ {"winter-wind.mp3"}

NumChannels == 8          \* pygame.mixer.init() opens 8 channels
TicksPerSecond == 10      \* one tick is the 0.1 s of the Running loop's sleep
DefaultFadeMs == 2000     \* fade_ms=2000 of play_sound and stop_all

\* what the loop over TEXTURE_MAP adds to valid_textures for one loop_file;
\* self.playing holds keys of self.sounds only
TexturesOf == [loop_file \in LoopFiles |-> ExtendFrom(loop_file, 1)]

\* valid_textures after the loop over self.playing
RECURSIVE ValidTextures(_)
ValidTextures(loops) ==
    IF loops = <<>> THEN <<>>
    ELSE TexturesOf[Head(loops)] \o ValidTextures(Tail(loops))

VARIABLES
    \* AudioManager
    sounds,                 \* self.sounds: the loop catalog (its keys)
    sfx,                    \* self.sfx: the effect catalog (its keys)
    textures,               \* self.textures: the texture catalog (its keys)
    channels,               \* self.channels: filename -> channel number
    playing,                \* self.playing
    master_volume,          \* self.master_volume, in percent
    last_texture_time,      \* self.last_texture_time, in ticks
    weather_freq_range,     \* self.weather_freq_range, in seconds
    next_texture_interval,  \* self.next_texture_interval, in ticks
    \* pygame.mixer
    mixer,                  \* channel number -> the loop it plays and its volume
    \* the environment
    now,                    \* time.time(), in ticks since construction
    \* history
    started,                \* loops Sound.play(loops=-1) started since the last stop_all
    ev,                     \* the call made by the last step, and what it did
    \* StatsManager and SettingsManager
    stats,                  \* self.stats
    settings,               \* self.settings
    \* FocusApp.run
    pc,                     \* where run() is
    files,                  \* files, as phase_one_selection returned it
    duration,               \* duration, in seconds
    idx,                    \* the position of "for f in files" in "Start Audio"
    start_time,             \* start_time, in ticks; -1 while it is not assigned
    keys,                   \* keys typed so far
    \* history of the session
    sel,                    \* what was selected, and how
    updates,                \* the arguments of the calls of update_time, in ticks
    stops,                  \* the arguments of the calls of stop_all
    gongs,                  \* calls of play_gong that played the chime
    ran,                    \* whether the Running loop's body was entered
    kbi,                    \* the interrupts signalled
    tick,                   \* the steps of the current pass of the Running loop in
                            \* their order, its elapsed, the elapsed last shown and
                            \* the character read in the pass
    tty,                    \* the mode of the terminal, and the calls of tcsetattr
    outcome                 \* how the session ended

audioVars == <<sounds, sfx, textures, channels, playing, master_volume,
               last_texture_time, weather_freq_range, next_texture_interval,
               mixer, started>>

\* A channel that plays no loop.  One-shots (textures, the gong) are short and
\* are not kept in the mixer; a loop that fades out counts as stopped.
FreeChannel == [sound |-> "", vol |-> 0]

\* the record of a step: which call, with which argument, and its outcome
Ev(op) == [op |-> op, file |-> "", level |-> 0, raised |-> FALSE, due |-> FALSE,
           at |-> 0, last |-> 0, interval |-> 0, played |-> "", vol |-> 0,
           count |-> 0]

(***************************************************************************)
(* AudioManager                                                            *)
(***************************************************************************)
\* max(0.0, min(1.0, level)) without the lower limit
ClampNoFloor(level) == IF level > 100 THEN 100 ELSE level

\* max(0.0, min(1.0, level)), in percent
Clamp(level) == IF level > 100 THEN 100 ELSE IF level < 0 THEN 0 ELSE level

\* Mix_PlayChannel(-1, ...): the first channel that plays nothing, 0 when all do
FirstFree ==
    LET free == {c \in 1..NumChannels : mixer[c].sound = ""}
    IN  IF free = {} THEN 0 ELSE CHOOSE c \in free : \A d \in free : c <= d

\* play_sound without the test "filename in self.sounds" on its list
play_sound_any(filename, fade_ms) ==
    /\ playing' = Append(playing, filename)
    /\ ev' = [Ev("play_sound") EXCEPT !.file = filename]
    /\ UNCHANGED <<sounds, sfx, textures, channels, master_volume, last_texture_time,
                   weather_freq_range, next_texture_interval, mixer, started>>

\* AudioManager.play_sound.  Sound.play returns None when every channel is in
\* use, and channel.set_volume then raises AttributeError.
play_sound(filename, fade_ms) ==
    /\ IF filename \notin sounds
       THEN /\ ev' = [Ev("play_sound") EXCEPT !.file = filename]
            /\ UNCHANGED <<channels, playing, mixer, started>>
       ELSE IF FirstFree = 0
       THEN /\ ev' = [Ev("play_sound") EXCEPT !.file = filename, !.raised = TRUE]
            /\ UNCHANGED <<channels, playing, mixer, started>>
       ELSE /\ mixer' = [mixer EXCEPT ![FirstFree] =
                            [sound |-> filename, vol |-> master_volume]]
            /\ channels' = [f \in DOMAIN channels \cup {filename} |->
                               IF f = filename THEN FirstFree ELSE channels[f]]
            /\ playing' = Append(playing, filename)
            /\ started' = started \cup {filename}
            /\ ev' = [Ev("play_sound") EXCEPT !.file = filename, !.played = filename]
    /\ UNCHANGED <<sounds, sfx, textures, master_volume, last_texture_time,
                   weather_freq_range, next_texture_interval>>

\* set_master_volume that stores the level and leaves the channels to later
set_master_volume_stored(level) ==
    /\ master_volume' = Clamp(level)
    /\ ev' = [Ev("set_master_volume") EXCEPT !.level = level]
    /\ UNCHANGED <<sounds, sfx, textures, channels, playing, last_texture_time,
                   weather_freq_range, next_texture_interval, mixer, started>>

\* AudioManager.set_master_volume: channel.get_busy() holds of a channel that
\* plays something
set_master_volume(level) ==
    /\ master_volume' = Clamp(level)
    /\ mixer' = [c \in 1..NumChannels |->
                    IF (\E f \in DOMAIN channels : channels[f] = c) /\ mixer[c].sound # ""
                    THEN [mixer[c] EXCEPT !.vol = Clamp(level)]
                    ELSE mixer[c]]
    /\ ev' = [Ev("set_master_volume") EXCEPT !.level = level]
    /\ UNCHANGED <<sounds, sfx, textures, channels, playing, last_texture_time,
                   weather_freq_range, next_texture_interval, started>>

\* stop_all without its two clear() calls
stop_all_keep(fade_ms) ==
    /\ mixer' = [c \in 1..NumChannels |->
                    IF \E i \in 1..Len(playing) : playing[i] = mixer[c].sound
                    THEN FreeChannel ELSE mixer[c]]
    /\ started' = {}
    /\ ev' = [Ev("stop_all") EXCEPT !.level = fade_ms, !.count = Len(playing)]
    /\ UNCHANGED <<sounds, sfx, textures, channels, playing, master_volume,
                   last_texture_time, weather_freq_range, next_texture_interval>>

\* AudioManager.stop_all: Sound.fadeout stops every channel that plays the
\* sound; self.sounds[filename] raises KeyError for a name that is not a key,
\* before the two clear() calls.  ev.count is the number of loops faded out.
stop_all(fade_ms) ==
    /\ IF \E i \in 1..Len(playing) : playing[i] \notin sounds
       THEN /\ ev' = [Ev("stop_all") EXCEPT !.level = fade_ms, !.raised = TRUE]
            /\ UNCHANGED <<mixer, playing, channels, started>>
       ELSE /\ mixer' = [c \in 1..NumChannels |->
                            IF \E i \in 1..Len(playing) : playing[i] = mixer[c].sound
                            THEN FreeChannel ELSE mixer[c]]
            /\ playing' = <<>>
            /\ channels' = <<>>
            /\ started' = {}
            /\ ev' = [Ev("stop_all") EXCEPT !.level = fade_ms, !.count = Len(playing)]
    /\ UNCHANGED <<sounds, sfx, textures, master_volume, last_texture_time,
                   weather_freq_range, next_texture_interval>>

\* ranges.get(level, (30, 90)): the table read without level.lower()
WeatherRangeExact(level) ==
    LET l == CharsOf[level]
    IN  IF l = CharsOf["low"] THEN <<60, 120>>
        ELSE IF l = CharsOf["medium"] THEN <<30, 90>>
        ELSE IF l = CharsOf["high"] THEN <<15, 45>>
        ELSE <<30, 90>>

\* ranges.get(level.lower(), (30, 90)) of set_weather_frequency
WeatherRange(level) ==
    LET l == Lower(CharsOf[level])
    IN  IF l = CharsOf["low"] THEN <<60, 120>>
        ELSE IF l = CharsOf["medium"] THEN <<30, 90>>
        ELSE IF l = CharsOf["high"] THEN <<15, 45>>
        ELSE <<30, 90>>

\* random.uniform(*range) in ticks: the two ends and the middle of the range
IntervalDraws(range) ==
    {range[1] * TicksPerSecond, ((range[1] + range[2]) * TicksPerSecond) \div 2,
     range[2] * TicksPerSecond}

\* set_weather_frequency that draws the next interval from the new range
set_weather_frequency_redraw(level) ==
    /\ weather_freq_range' = WeatherRange(level)
    /\ next_texture_interval' \in IntervalDraws(WeatherRange(level))
    /\ ev' = [Ev("set_weather_frequency") EXCEPT !.file = level]
    /\ UNCHANGED <<sounds, sfx, textures, channels, playing, master_volume,
                   last_texture_time, mixer, started>>

\* AudioManager.set_weather_frequency
set_weather_frequency(level) ==
    /\ weather_freq_range' = WeatherRange(level)
    /\ ev' = [Ev("set_weather_frequency") EXCEPT !.file = level]
    /\ UNCHANGED <<sounds, sfx, textures, channels, playing, master_volume,
                   last_texture_time, next_texture_interval, mixer, started>>

\* random.uniform(0.3, 0.6) in thousandths: a + (b - a) * random() with random()
\* in [0, 1) reaches a, and reaches b when the sum rounds up
ScaleDraws == {300, 450, 600}

\* the test of update_textures with the interval not waited for
DueAlways(t, last, interval) == t - last > 0

\* the test of update_textures with the threshold itself counted as due
DueAtThreshold(t, last, interval) == t - last >= interval

\* the test of update_textures
Due(t, last, interval) == t - last > interval

\* vol of play_random_texture without the random scale
TextureVolumeFull(master, scale) == master * 1000

\* vol of play_random_texture
TextureVolume(master, scale) == master * scale

\* random.choice(valid_textures)
Choices(pool) == {pool[i] : i \in 1..Len(pool)}

\* update_textures that advances its two fields only when a texture was played
update_textures_lazy ==
    /\ IF Due(now, last_texture_time, next_texture_interval)
       THEN LET pool == ValidTextures(playing)
                base == [Ev("update_textures") EXCEPT !.due = TRUE, !.at = now,
                            !.last = last_texture_time, !.interval = next_texture_interval]
            IN  IF playing = <<>> \/ pool = <<>>
                THEN ev' = base /\ UNCHANGED <<last_texture_time, next_texture_interval>>
                ELSE \E texture_file \in Choices(pool) :
                        IF texture_file \in textures
                        THEN /\ \E scale \in ScaleDraws :
                                   ev' = [base EXCEPT !.file = texture_file,
                                              !.played = texture_file,
                                              !.vol = TextureVolume(master_volume, scale)]
                             /\ last_texture_time' = now
                             /\ next_texture_interval' \in IntervalDraws(weather_freq_range)
                        ELSE /\ ev' = [base EXCEPT !.file = texture_file]
                             /\ UNCHANGED <<last_texture_time, next_texture_interval>>
       ELSE /\ ev' = [Ev("update_textures") EXCEPT !.at = now,
                         !.last = last_texture_time, !.interval = next_texture_interval]
            /\ UNCHANGED <<last_texture_time, next_texture_interval>>
    /\ UNCHANGED <<sounds, sfx, textures, channels, playing, master_volume,
                   weather_freq_range, mixer, started>>

\* update_textures that keeps the texture it plays in self.playing
update_textures_tracked ==
    /\ IF Due(now, last_texture_time, next_texture_interval)
       THEN /\ last_texture_time' = now
            /\ next_texture_interval' \in IntervalDraws(weather_freq_range)
            /\ LET pool == ValidTextures(playing)
                   base == [Ev("update_textures") EXCEPT !.due = TRUE, !.at = now,
                               !.last = last_texture_time, !.interval = next_texture_interval]
               IN  IF playing = <<>> \/ pool = <<>>
                   THEN ev' = base /\ UNCHANGED playing
                   ELSE \E texture_file \in Choices(pool) :
                           IF texture_file \in textures
                           THEN /\ \E scale \in ScaleDraws :
                                     ev' = [base EXCEPT !.file = texture_file,
                                                !.played = texture_file,
                                                !.vol = TextureVolume(master_volume, scale)]
                                /\ playing' = Append(playing, texture_file)
                           ELSE ev' = [base EXCEPT !.file = texture_file] /\ UNCHANGED playing
       ELSE /\ ev' = [Ev("update_textures") EXCEPT !.at = now,
                         !.last = last_texture_time, !.interval = next_texture_interval]
            /\ UNCHANGED <<last_texture_time, next_texture_interval, playing>>
    /\ UNCHANGED <<sounds, sfx, textures, channels, master_volume,
                   weather_freq_range, mixer, started>>

\* AudioManager.update_textures with play_random_texture
update_textures ==
    /\ IF Due(now, last_texture_time, next_texture_interval)
       THEN /\ last_texture_time' = now
            /\ next_texture_interval' \in IntervalDraws(weather_freq_range)
            /\ LET pool == ValidTextures(playing)
                   base == [Ev("update_textures") EXCEPT !.due = TRUE, !.at = now,
                               !.last = last_texture_time, !.interval = next_texture_interval]
               IN  IF playing = <<>> \/ pool = <<>>
                   THEN ev' = base
                   ELSE \E texture_file \in Choices(pool) :
                           IF texture_file \in textures
                           THEN \E scale \in ScaleDraws :
                                   ev' = [base EXCEPT !.file = texture_file,
                                              !.played = texture_file,
                                              !.vol = TextureVolume(master_volume, scale)]
                           ELSE ev' = [base EXCEPT !.file = texture_file]
       ELSE /\ ev' = [Ev("update_textures") EXCEPT !.at = now,
                         !.last = last_texture_time, !.interval = next_texture_interval]
            /\ UNCHANGED <<last_texture_time, next_texture_interval>>
    /\ UNCHANGED <<sounds, sfx, textures, channels, playing, master_volume,
                   weather_freq_range, mixer, started>>

\* AudioManager.play_gong
play_gong ==
    /\ ev' = IF "gong.mp3" \in sfx
             THEN [Ev("play_gong") EXCEPT !.played = "gong.mp3", !.vol = master_volume * 1000]
             ELSE Ev("play_gong")
    /\ UNCHANGED audioVars

\* AudioManager.__init__ and the scans
AudioInit ==
    /\ sounds = LoopFiles
    /\ sfx \in {{}, {"gong.mp3"}}
    /\ textures = TextureFiles
    /\ channels = <<>>
    /\ playing = <<>>
    /\ master_volume = 100
    /\ last_texture_time = now
    /\ weather_freq_range = <<30, 90>>
    /\ next_texture_interval \in IntervalDraws(<<30, 90>>)
    /\ mixer = [c \in 1..NumChannels |-> FreeChannel]
    /\ started = {}

sessionVars == <<stats, settings, pc, files, duration, idx, start_time, keys,
                 sel, updates, stops, gongs, ran, kbi, tick, tty, outcome>>

vars == <<audioVars, now, ev, sessionVars>>

(***************************************************************************)
(* StatsManager and SettingsManager                                        *)
(***************************************************************************)
Today == 1                \* datetime.date.today() at construction, as a day number
NoDate == 0               \* "last_session_date": None
SecondsPerDay == 86400    \* the length of a calendar day

\* datetime.date.today() at the instant t of the clock
DayOf(t) == Today + t \div (SecondsPerDay * TicksPerSecond)

\* the defaults of StatsManager.load_stats
DefaultStats == [total_seconds |-> 0, last_session_date |-> NoDate, current_streak |-> 0]

\* the defaults of SettingsManager.load_settings that run() reads, with a
\* settings.json that sets "timer_duration" to 0.01 minutes; fade_duration
\* is in ticks and timer_duration in hundredths of a minute
DefaultSettings ==
    [volume |-> 100, timer_duration |-> 1, play_gong |-> TRUE, dynamic_weather |-> TRUE,
     volume_step |-> 5, weather_freq |-> "medium", fade_duration |-> 20,
     confirm_exit |-> FALSE]

\* update_time without "if seconds <= 0: return"
UpdatedStatsUnguarded(st, seconds) ==
    LET today == DayOf(now)
        delta == today - st.last_session_date
        streak == IF st.last_session_date = today THEN st.current_streak
                  ELSE IF st.last_session_date = NoDate THEN 1
                  ELSE IF delta = 1 THEN st.current_streak + 1
                  ELSE IF delta > 1 THEN 1
                  ELSE st.current_streak
    IN  [total_seconds |-> st.total_seconds + seconds,
         last_session_date |-> today,
         current_streak |-> streak]

\* StatsManager.update_time, on self.stats
UpdatedStats(st, seconds) ==
    IF seconds <= 0 THEN st
    ELSE LET today == DayOf(now)
             delta == today - st.last_session_date
             streak == IF st.last_session_date = today THEN st.current_streak
                       ELSE IF st.last_session_date = NoDate THEN 1
                       ELSE IF delta = 1 THEN st.current_streak + 1
                       ELSE IF delta > 1 THEN 1
                       ELSE st.current_streak
         IN  [total_seconds |-> st.total_seconds + seconds,
              last_session_date |-> today,
              current_streak |-> streak]

\* a process in which run() is not called
SessionIdle ==
    /\ stats = DefaultStats
    /\ settings = DefaultSettings
    /\ pc = "idle"
    /\ files = <<>>
    /\ duration = 0
    /\ idx = 1
    /\ start_time = -1
    /\ keys = 0
    /\ sel = [mode |-> "", valid |-> FALSE, entered |-> <<>>]
    /\ updates = <<>>
    /\ stops = <<>>
    /\ gongs = 0
    /\ ran = FALSE
    /\ kbi = [n |-> 0, at |-> -1, running |-> FALSE]
    /\ tick = [order |-> <<>>, elapsed |-> -1, shown |-> -1, key |-> ""]
    /\ tty = [mode |-> "cooked", restores |-> 0]
    /\ outcome = ""

(***************************************************************************)
(* The StatsManager on its own: any caller of update_time and reset_stats, *)
(* on any days.                                                            *)
(***************************************************************************)
CommitSeconds == {-5, 0, 1, 90}
DaysPassed == {1, 2}

SUpdateTime ==
    /\ \E seconds \in CommitSeconds :
          /\ stats.total_seconds + seconds <= MaxTotal
          /\ stats' = UpdatedStats(stats, seconds)
          /\ ev' = [Ev("update_time") EXCEPT !.level = seconds]
    /\ UNCHANGED <<audioVars, now, settings, pc, files, duration, idx, start_time, keys,
                   sel, updates, stops, gongs, ran, kbi, tick, outcome, tty>>

\* StatsManager.reset_stats
SResetStats ==
    /\ stats' = DefaultStats
    /\ ev' = Ev("reset_stats")
    /\ UNCHANGED <<audioVars, now, settings, pc, files, duration, idx, start_time, keys,
                   sel, updates, stops, gongs, ran, kbi, tick, outcome, tty>>

\* midnight passes, once or twice
SDayPasses ==
    /\ \E d \in DaysPassed :
          /\ now' = now + d * SecondsPerDay * TicksPerSecond
          /\ DayOf(now') <= Today + MaxDays
    /\ ev' = Ev("time")
    /\ UNCHANGED <<audioVars, sessionVars>>

StatsNext == SUpdateTime \/ SResetStats \/ SDayPasses

SpecStatsInit ==
    /\ now = 0 /\ AudioInit /\ sfx = {}
    /\ next_texture_interval = 30 * TicksPerSecond
    /\ ev = Ev("init") /\ SessionIdle

SpecStats == SpecStatsInit /\ [][StatsNext]_vars

(***************************************************************************)
(* The mixer on its own: any caller of play_sound, stop_all and            *)
(* set_master_volume, in any order.                                        *)
(***************************************************************************)
SetterLevels == {-50, 0, 35, 100, 250}

MPlaySound ==
    /\ Len(playing) < MaxPlaying
    /\ \E f \in sounds \cup {"missing.mp3"} : play_sound(f, DefaultFadeMs)
    /\ UNCHANGED <<now, sessionVars>>

MStopAll == stop_all(DefaultFadeMs) /\ UNCHANGED <<now, sessionVars>>

MSetMasterVolume ==
    (\E level \in SetterLevels : set_master_volume(level)) /\ UNCHANGED <<now, sessionVars>>

MixerNext == MPlaySound \/ MStopAll \/ MSetMasterVolume

SpecMixerInit == now = 0 /\ AudioInit /\ ev = Ev("init") /\ SessionIdle

SpecMixer == SpecMixerInit /\ [][MixerNext]_vars

(***************************************************************************)
(* The loop channels on their own: a caller of play_sound and              *)
(* set_master_volume, and a backend that can end the playback on a channel.*)
(***************************************************************************)
ChannelLoops == {"Rain.ogg", "fire.mp3"}
ChannelLevels == {35, 250}

CPlaySound ==
    /\ Len(playing) < MaxPlaying
    /\ \E f \in ChannelLoops : play_sound(f, DefaultFadeMs)
    /\ UNCHANGED <<now, sessionVars>>

CSetMasterVolume ==
    (\E level \in ChannelLevels : set_master_volume(level)) /\ UNCHANGED <<now, sessionVars>>

\* the backend ends the playback on a channel: channel.get_busy() no longer
\* holds of it; its volume stays as it was set
CChannelEnds ==
    /\ \E c \in 1..NumChannels :
          /\ mixer[c].sound # ""
          /\ mixer' = [mixer EXCEPT ![c].sound = ""]
    /\ ev' = Ev("channel_end")
    /\ UNCHANGED <<sounds, sfx, textures, channels, playing, master_volume,
                   last_texture_time, weather_freq_range, next_texture_interval,
                   started, now, sessionVars>>

ChannelsNext == CPlaySound \/ CSetMasterVolume \/ CChannelEnds

SpecChannels == SpecMixerInit /\ [][ChannelsNext]_vars

(***************************************************************************)
(* The texture scheduler on its own: a caller that starts loops and sets   *)
(* the volume, then calls update_textures and set_weather_frequency at any *)
(* instants.                                                               *)
(***************************************************************************)
WeatherLoops == {"gentle-rain.mp3", "typing-sound.mp3", "Rain.ogg", "sea-breeze.mp3"}
WeatherLevels == {0, 35}
FrequencyLevels == {"low", "medium", "HIGH", "often"}

WPlaySound ==
    /\ now = 0
    /\ Len(playing) < MaxPlaying
    /\ \E f \in WeatherLoops : play_sound(f, DefaultFadeMs)
    /\ UNCHANGED <<now, sessionVars>>

WSetMasterVolume ==
    /\ now = 0
    /\ \E level \in WeatherLevels : set_master_volume(level)
    /\ UNCHANGED <<now, sessionVars>>

WSetWeatherFrequency ==
    (\E level \in FrequencyLevels : set_weather_frequency(level))
    /\ UNCHANGED <<now, sessionVars>>

WUpdateTextures == update_textures /\ UNCHANGED <<now, sessionVars>>

\* time passes, to an instant just before, at or just after the one at which
\* the scheduler becomes due
WAdvance ==
    /\ \E d \in {-1, 0, 1} :
          /\ now' = last_texture_time + next_texture_interval + d
          /\ now' > now
          /\ now' <= MaxNow
    /\ ev' = Ev("time")
    /\ UNCHANGED <<audioVars, sessionVars>>

WeatherNext ==
    \/ WPlaySound
    \/ WSetMasterVolume
    \/ WSetWeatherFrequency
    \/ WUpdateTextures
    \/ WAdvance

SpecWeatherInit == now = 0 /\ AudioInit /\ sfx = {} /\ ev = Ev("init") /\ SessionIdle

SpecWeather == SpecWeatherInit /\ [][WeatherNext]_vars

(***************************************************************************)
(* FocusApp.run, statement by statement.  An interrupt (KeyboardInterrupt) *)
(* can be signalled at any statement; a statement that blocks (a sleep, an *)
(* input) is where time passes.                                            *)
(***************************************************************************)
ConfirmTicks == 30        \* time the user takes to answer the exit prompt
GongWaitTicks == 40       \* time.sleep(4.0) after play_gong
EmergencyFadeMs == 1000   \* stop_all(fade_ms=1000) of "except Exception"
MsPerTick == 100          \* milliseconds in a tick

\* sorted(list(self.audio.sounds.keys())) of show_menu: sound_map maps the
\* position in it, counted from 1, to the file
SortedSounds == <<"City_Night.wav", "Rain.ogg", "fire.mp3", "gentle-rain.mp3",
                  "sea-breeze.mp3", "typing-sound.mp3">>

\* the menu returning an empty list where it returns None
MenuBailsEmpty(fs) == FALSE

\* "if not valid_selection" of phase_one_selection, on the files selected
MenuBails(fs) == fs = <<>>

\* the loop "for sid in selected_ids" of phase_one_selection
RECURSIVE MenuFiles(_)
MenuFiles(ids) ==
    IF ids = <<>> THEN <<>>
    ELSE (IF Head(ids) \in 1..Len(SortedSounds) THEN <<SortedSounds[Head(ids)]>> ELSE <<>>)
         \o MenuFiles(Tail(ids))

\* the files "query in f.lower()" holds of; the first of them in the order of
\* os.listdir, which is any order, becomes best_match
QuickMatches(query) ==
    {f \in sounds : IsSubstring(Lower(CharsOf[query]), Lower(CharsOf[f]))}

\* int(minutes * 60), minutes in hundredths: int() cuts towards zero
Seconds(cm) == IF cm >= 0 THEN (cm * 60) \div 100 ELSE -((-(cm * 60)) \div 100)

\* what the user or the command line can give
MenuIds == {4, 9}                                   \* gentle-rain.mp3, and no sound
IdSeqs == UNION {[1..n -> MenuIds] : n \in 1..MaxSel}
              \cup {[i \in 1..(NumChannels + 1) |-> 4]}    \* one id, once more than
                                                         \* the mixer has channels
DurationsCm == {-2, 0, 1, MaxDurCm}
DurationInputs == {<<>>} \cup {<<d>> : d \in DurationsCm}   \* <<>>: nothing, or no number
VolumeInputs == {<<>>, <<-50>>, <<250>>}
SoundQueries == {<<>>, <<"RAIN">>, <<"xyz">>}
SelectWaits == {0, 1000}                            \* time spent in the menu


\* a settings.json that sets "volume_step" to 10
SteppedSettings == [DefaultSettings EXCEPT !.volume_step = 10]

\* what settings.json can hold: the three switches either way with the other
\* settings at their defaults, and the volume step of 10
SettingsFiles ==
    {[DefaultSettings EXCEPT !.confirm_exit = c, !.play_gong = g, !.dynamic_weather = w] :
        c \in BOOLEAN, g \in BOOLEAN, w \in BOOLEAN}
    \cup {SteppedSettings}

\* the characters typed during a session: the three kinds everywhere, every
\* volume key in the sessions with the volume step of 10
KeysTyped ==
    IF settings = SteppedSettings THEN {"+", "=", "w", "-", "s", "x", "W"}
    ELSE {"+", "-", "x"}

fadeMs == settings.fade_duration * MsPerTick

\* phase_one_selection with --quick
SelectQuick ==
    /\ pc = "select"
    /\ \E sound \in SoundQueries, time \in DurationInputs, volume \in VolumeInputs :
          /\ \E selected \in (IF sound = <<>> \/ QuickMatches(sound[1]) = {} THEN {<<>>}
                              ELSE {<<f>> : f \in QuickMatches(sound[1])}) :
                files' = selected
          /\ LET cm == IF time = <<>> \/ time[1] = 0 THEN settings.timer_duration ELSE time[1]
             IN  /\ duration' = Seconds(cm)
                 /\ sel' = [mode |-> "quick", valid |-> files' # <<>>, entered |-> <<cm>>]
          /\ set_master_volume(IF volume = <<>> THEN settings.volume ELSE volume[1])
    /\ pc' = "start_audio"
    /\ UNCHANGED <<now, stats, settings, idx, start_time, keys, updates, stops, gongs,
                   ran, kbi, outcome, tick, tty>>

\* phase_one_selection with the menu: a selection with no known id returns None
SelectMenu ==
    /\ pc = "select"
    /\ \E ids \in IdSeqs, dur \in DurationInputs, vol \in VolumeInputs, wait \in SelectWaits :
          /\ now' = now + wait
          /\ IF MenuBails(MenuFiles(ids))
             THEN /\ files' = <<>>
                  /\ sel' = [mode |-> "menu", valid |-> FALSE, entered |-> <<>>]
                  /\ pc' = "returned"
                  /\ outcome' = "NoSession"
                  /\ ev' = Ev("run")
                  /\ UNCHANGED <<audioVars, duration>>
             ELSE LET cm == IF dur = <<>> THEN settings.timer_duration ELSE dur[1]
                  IN  /\ files' = MenuFiles(ids)
                      /\ duration' = Seconds(cm)
                      /\ sel' = [mode |-> "menu", valid |-> MenuFiles(ids) # <<>>,
                                 entered |-> <<cm>>]
                      /\ set_master_volume(IF vol = <<>> THEN settings.volume ELSE vol[1])
                      /\ pc' = "start_audio"
                      /\ UNCHANGED outcome
    /\ UNCHANGED <<stats, settings, idx, start_time, keys, updates, stops, gongs, ran, kbi,
                   tick, tty>>

\* phase_one_selection with the menu and an empty line: the menu is shown again
SelectAgain ==
    /\ pc = "select"
    /\ ev' = Ev("menu")
    /\ UNCHANGED <<audioVars, now, sessionVars>>

\* "for f in files: self.audio.play_sound(f, fade_ms=fade_ms)"; an error of
\* play_sound leaves run(), which has no handler around it
StartAudio ==
    /\ pc = "start_audio"
    /\ idx <= Len(files)
    /\ play_sound(files[idx], fadeMs)
    /\ idx' = idx + 1
    /\ pc' = IF ev'.raised THEN "raised" ELSE "start_audio"
    /\ outcome' = IF ev'.raised THEN "Crashed" ELSE outcome
    /\ UNCHANGED <<now, stats, settings, files, duration, start_time, keys, sel, updates,
                   stops, gongs, ran, kbi, tick, tty>>

\* "self.audio.set_weather_frequency(...)"
ApplyWeather ==
    /\ pc = "start_audio"
    /\ idx > Len(files)
    /\ set_weather_frequency(settings.weather_freq)
    /\ pc' = "setup"
    /\ UNCHANGED <<now, stats, settings, files, duration, idx, start_time, keys, sel,
                   updates, stops, gongs, ran, kbi, outcome, tick, tty>>

\* the set-up of the display and "old_settings = termios.tcgetattr(sys.stdin)",
\* before the try block
Setup ==
    /\ pc = "setup"
    /\ pc' = "enter"
    /\ ev' = Ev("run")
    /\ UNCHANGED <<audioVars, now, stats, settings, files, duration, idx, start_time, keys,
                   sel, updates, stops, gongs, ran, kbi, outcome, tick, tty>>

\* termios.tcgetattr raises termios.error when stdin is not a terminal; run()
\* has no handler around it
SetupFault ==
    /\ pc = "setup"
    /\ pc' = "raised"
    /\ outcome' = "Crashed"
    /\ ev' = Ev("error")
    /\ UNCHANGED <<audioVars, now, stats, settings, files, duration, idx, start_time, keys,
                   sel, updates, stops, gongs, ran, kbi, tick, tty>>

\* the head of the try block with the scheduler's clock started anew
EnterRestartsClock ==
    /\ pc = "enter"
    /\ start_time' = now
    /\ last_texture_time' = now
    /\ pc' = "tick_top"
    /\ tty' = [tty EXCEPT !.mode = "cbreak"]
    /\ ev' = Ev("run")
    /\ UNCHANGED <<sounds, sfx, textures, channels, playing, master_volume,
                   weather_freq_range, next_texture_interval, mixer, started,
                   now, stats, settings, files, duration, idx, keys, sel,
                   updates, stops, gongs, ran, kbi, outcome, tick>>

\* inside the try block: tty.setcbreak, the Live display,
\* "start_time = time.time()"
Enter ==
    /\ pc = "enter"
    /\ start_time' = now
    /\ pc' = "tick_top"
    /\ tty' = [tty EXCEPT !.mode = "cbreak"]
    /\ ev' = Ev("run")
    /\ UNCHANGED <<audioVars, now, stats, settings, files, duration, idx, keys, sel,
                   updates, stops, gongs, ran, kbi, outcome, tick>>

\* "remaining <= 0" of the Running loop, on elapsed = time.time() - start_time
TimeIsUp == duration * TicksPerSecond - (now - start_time) <= 0

\* the head of the Running loop with the elapsed of the pass before kept
TickTopNoElapsed ==
    /\ pc = "tick_top"
    /\ pc' = IF TimeIsUp THEN "commit" ELSE "tick_weather"
    /\ ran' = (ran \/ ~TimeIsUp)
    /\ tick' = [tick EXCEPT !.order = <<>>]
    /\ ev' = Ev("run")
    /\ UNCHANGED <<audioVars, now, stats, settings, files, duration, idx, start_time, keys,
                   sel, updates, stops, gongs, kbi, outcome, tty>>

\* the head of the Running loop: "elapsed = time.time() - start_time" and
\* "if remaining <= 0: break"
TickTop ==
    /\ pc = "tick_top"
    /\ pc' = IF TimeIsUp THEN "commit" ELSE "tick_weather"
    /\ ran' = (ran \/ ~TimeIsUp)
    /\ ev' = Ev("run")
    /\ tick' = [tick EXCEPT !.order = <<"elapsed">>, !.elapsed = now - start_time,
                            !.key = ""]
    /\ UNCHANGED <<audioVars, now, stats, settings, files, duration, idx, start_time, keys,
                   sel, updates, stops, gongs, kbi, outcome, tty>>

\* "if self.settings.get("dynamic_weather", True): self.audio.update_textures()"
TickWeather ==
    /\ pc = "tick_weather"
    /\ IF settings.dynamic_weather
       THEN update_textures
       ELSE ev' = Ev("run") /\ UNCHANGED audioVars
    /\ pc' = "tick_input"
    /\ tick' = [tick EXCEPT !.order = Append(@, "weather")]
    /\ UNCHANGED <<now, stats, settings, files, duration, idx, start_time, keys, sel,
                   updates, stops, gongs, ran, kbi, outcome, tty>>

\* "key = self.check_input()" with no key waiting
TickNoKey ==
    /\ pc = "tick_input"
    /\ pc' = "tick_sleep"
    /\ ev' = Ev("run")
    /\ tick' = [tick EXCEPT !.order = Append(@, "input")]
    /\ UNCHANGED <<audioVars, now, stats, settings, files, duration, idx, start_time, keys,
                   sel, updates, stops, gongs, ran, kbi, outcome, tty>>

\* the handling of a key that knows "+" and "-" only
TickKeyPlusMinus ==
    /\ pc = "tick_input"
    /\ keys < MaxKeys
    /\ \E key \in KeysTyped :
          /\ IF key = "+"
             THEN set_master_volume(master_volume + settings.volume_step)
             ELSE IF key = "-"
             THEN set_master_volume(master_volume - settings.volume_step)
             ELSE ev' = [Ev("key") EXCEPT !.file = key] /\ UNCHANGED audioVars
          /\ tick' = [tick EXCEPT !.order = Append(@, "input"), !.key = key]
    /\ keys' = keys + 1
    /\ pc' = "tick_sleep"
    /\ UNCHANGED <<now, stats, settings, files, duration, idx, start_time, sel, updates,
                   stops, gongs, ran, kbi, outcome, tty>>

\* "key = self.check_input()" with a key waiting: one character is read
TickKey ==
    /\ pc = "tick_input"
    /\ keys < MaxKeys
    /\ \E key \in KeysTyped :
          /\ IF key \in {"+", "w", "="}
             THEN set_master_volume(master_volume + settings.volume_step)
             ELSE IF key \in {"-", "s"}
             THEN set_master_volume(master_volume - settings.volume_step)
             ELSE ev' = [Ev("key") EXCEPT !.file = key] /\ UNCHANGED audioVars
          /\ tick' = [tick EXCEPT !.order = Append(@, "input"), !.key = key]
    /\ keys' = keys + 1
    /\ pc' = "tick_sleep"
    /\ UNCHANGED <<now, stats, settings, files, duration, idx, start_time, sel, updates,
                   stops, gongs, ran, kbi, outcome, tty>>

\* "time.sleep(0.1)" during which the clock stands still
TickSleepNoTime ==
    /\ pc = "tick_sleep"
    /\ pc' = "tick_top"
    /\ ev' = Ev("run")
    /\ tick' = [tick EXCEPT !.order = Append(@, "publish"), !.shown = tick.elapsed]
    /\ UNCHANGED <<audioVars, now, stats, settings, files, duration, idx, start_time, keys,
                   sel, updates, stops, gongs, ran, kbi, outcome, tty>>

\* "progress.update(task_id, completed=elapsed)" and the other updates of the
\* display, then "time.sleep(0.1)"
TickSleep ==
    /\ pc = "tick_sleep"
    /\ now' = now + 1
    /\ pc' = "tick_top"
    /\ ev' = Ev("run")
    /\ tick' = [tick EXCEPT !.order = Append(@, "publish"), !.shown = tick.elapsed]
    /\ UNCHANGED <<audioVars, stats, settings, files, duration, idx, start_time, keys, sel,
                   updates, stops, gongs, ran, kbi, outcome, tty>>

\* "elapsed_total = time.time() - start_time; self.stats.update_time(elapsed_total)"
Commit ==
    /\ pc = "commit"
    /\ updates' = Append(updates, now - start_time)
    /\ stats' = UpdatedStats(stats, now - start_time)
    /\ pc' = "fade"
    /\ ev' = Ev("update_time")
    /\ UNCHANGED <<audioVars, now, settings, files, duration, idx, start_time, keys, sel,
                   stops, gongs, ran, kbi, outcome, tick, tty>>

\* "self.audio.stop_all(fade_ms=fade_ms)" after the loop
Fade ==
    /\ pc = "fade"
    /\ stop_all(fadeMs)
    /\ stops' = Append(stops, fadeMs)
    /\ pc' = "fade_wait"
    /\ UNCHANGED <<now, stats, settings, files, duration, idx, start_time, keys, sel,
                   updates, gongs, ran, kbi, outcome, tick, tty>>

\* "time.sleep(self.settings.get("fade_duration", 2.0))" after the loop
FadeWait ==
    /\ pc = "fade_wait"
    /\ now' = now + settings.fade_duration
    /\ pc' = "gong"
    /\ ev' = Ev("run")
    /\ UNCHANGED <<audioVars, stats, settings, files, duration, idx, start_time, keys, sel,
                   updates, stops, gongs, ran, kbi, outcome, tick, tty>>

\* "if self.settings.get("play_gong", True): self.audio.play_gong()"
Gong ==
    /\ pc = "gong"
    /\ IF settings.play_gong
       THEN play_gong /\ gongs' = gongs + (IF "gong.mp3" \in sfx THEN 1 ELSE 0)
                      /\ pc' = "gong_wait"
       ELSE ev' = Ev("run") /\ UNCHANGED <<audioVars, gongs>> /\ pc' = "receipt"
    /\ UNCHANGED <<now, stats, settings, files, duration, idx, start_time, keys, sel,
                   updates, stops, ran, kbi, outcome, tick, tty>>

\* "time.sleep(4.0)" after the gong
GongWait ==
    /\ pc = "gong_wait"
    /\ now' = now + GongWaitTicks
    /\ pc' = "receipt"
    /\ ev' = Ev("run")
    /\ UNCHANGED <<audioVars, stats, settings, files, duration, idx, start_time, keys, sel,
                   updates, stops, gongs, ran, kbi, outcome, tick, tty>>

\* "self.print_receipt(...)" and the line after it: the try block is left
Receipt ==
    /\ pc = "receipt"
    /\ pc' = "finally"
    /\ outcome' = "Completed"
    /\ ev' = Ev("run")
    /\ UNCHANGED <<audioVars, now, stats, settings, files, duration, idx, start_time, keys,
                   sel, updates, stops, gongs, ran, kbi, tick, tty>>

\* "except Exception" that fades out as the other two paths do
ExceptHandlerDefaultFade ==
    /\ pc = "except"
    /\ stop_all(fadeMs)
    /\ stops' = Append(stops, fadeMs)
    /\ pc' = "finally"
    /\ UNCHANGED <<now, stats, settings, files, duration, idx, start_time, keys, sel,
                   updates, gongs, ran, kbi, outcome, tick, tty>>

\* "except Exception": the error is printed and "self.audio.stop_all(fade_ms=1000)"
ExceptHandler ==
    /\ pc = "except"
    /\ stop_all(EmergencyFadeMs)
    /\ stops' = Append(stops, EmergencyFadeMs)
    /\ pc' = "finally"
    /\ UNCHANGED <<now, stats, settings, files, duration, idx, start_time, keys, sel,
                   updates, gongs, ran, kbi, outcome, tick, tty>>

\* "except KeyboardInterrupt": the exit prompt, when confirm_exit is set; the
\* answer does not matter
KbiConfirm ==
    /\ pc = "kbi_confirm"
    /\ now' = now + (IF settings.confirm_exit THEN ConfirmTicks ELSE 0)
    /\ pc' = "kbi_commit"
    /\ ev' = Ev("run")
    /\ UNCHANGED <<audioVars, stats, settings, files, duration, idx, start_time, keys, sel,
                   updates, stops, gongs, ran, kbi, outcome, tick, tty>>

\* "except KeyboardInterrupt" that goes on to the fade without the commit
KbiCommitSkip ==
    /\ pc = "kbi_commit"
    /\ pc' = "kbi_fade"
    /\ ev' = Ev("run")
    /\ UNCHANGED <<audioVars, now, stats, settings, files, duration, idx, start_time, keys,
                   sel, updates, stops, gongs, ran, kbi, outcome, tick, tty>>

\* "except KeyboardInterrupt": "elapsed_total = time.time() - start_time;
\* self.stats.update_time(elapsed_total)", with NameError passed over when
\* start_time is not assigned yet
KbiCommit ==
    /\ pc = "kbi_commit"
    /\ IF start_time >= 0
       THEN /\ updates' = Append(updates, now - start_time)
            /\ stats' = UpdatedStats(stats, now - start_time)
            /\ ev' = Ev("update_time")
       ELSE /\ ev' = Ev("run")
            /\ UNCHANGED <<updates, stats>>
    /\ pc' = "kbi_fade"
    /\ UNCHANGED <<audioVars, now, settings, files, duration, idx, start_time, keys, sel,
                   stops, gongs, ran, kbi, outcome, tick, tty>>

\* "except KeyboardInterrupt": "self.audio.stop_all(fade_ms=fade_ms)"
KbiFade ==
    /\ pc = "kbi_fade"
    /\ stop_all(fadeMs)
    /\ stops' = Append(stops, fadeMs)
    /\ pc' = "kbi_wait"
    /\ UNCHANGED <<now, stats, settings, files, duration, idx, start_time, keys, sel,
                   updates, gongs, ran, kbi, outcome, tick, tty>>

\* "except KeyboardInterrupt": the sleep of the fade, then the receipt
KbiWait ==
    /\ pc = "kbi_wait"
    /\ now' = now + settings.fade_duration
    /\ pc' = "finally"
    /\ ev' = Ev("run")
    /\ UNCHANGED <<audioVars, stats, settings, files, duration, idx, start_time, keys, sel,
                   updates, stops, gongs, ran, kbi, outcome, tick, tty>>

\* a clean-up that is reached only when run() returns: tcsetattr as the last
\* statement of the handlers, and no "finally"
FinallyOnReturn ==
    /\ pc \in {"finally", "finally_raise"}
    /\ pc' = IF pc = "finally" THEN "returned" ELSE "raised"
    /\ tty' = IF pc = "finally" THEN [mode |-> "cooked", restores |-> tty.restores + 1]
              ELSE tty
    /\ ev' = Ev("run")
    /\ UNCHANGED <<audioVars, now, stats, settings, files, duration, idx, start_time, keys,
                   sel, updates, stops, gongs, ran, kbi, outcome, tick>>

\* "finally: termios.tcsetattr(sys.stdin, termios.TCSADRAIN, old_settings)";
\* run() then returns, or lets the interrupt that ended a handler through
Finally ==
    /\ pc \in {"finally", "finally_raise"}
    /\ pc' = IF pc = "finally" THEN "returned" ELSE "raised"
    /\ tty' = [mode |-> "cooked", restores |-> tty.restores + 1]
    /\ ev' = Ev("run")
    /\ UNCHANGED <<audioVars, now, stats, settings, files, duration, idx, start_time, keys,
                   sel, updates, stops, gongs, ran, kbi, outcome, tick>>

\* where run() is inside its try block, and where inside the Running loop
RunningPcs == {"tick_top", "tick_weather", "tick_input", "tick_sleep"}
AfterLoopPcs == {"commit", "fade", "fade_wait", "gong", "gong_wait", "receipt"}
HandlerPcs == {"except", "kbi_confirm", "kbi_commit", "kbi_fade", "kbi_wait"}
BeforeTryPcs == {"select", "start_audio", "setup"}

\* the part of a sleep that has passed when an interrupt ends it
SleptBefore(p) ==
    IF p \in {"fade_wait", "kbi_wait"} THEN {0, settings.fade_duration \div 2}
    ELSE IF p = "gong_wait" THEN {0, GongWaitTicks \div 2}
    ELSE {0}

\* the interrupts the user signals: MaxInterrupts, and one more during the
\* interrupt handler's wait for the fade
InterruptsAllowed == IF pc = "kbi_wait" THEN MaxInterrupts + 1 ELSE MaxInterrupts

\* KeyboardInterrupt.  Inside the try block it is handled by "except
\* KeyboardInterrupt"; inside the exit prompt's input() by the bare except
\* around it; inside a handler it leaves run() through "finally"; before the
\* try block it leaves run() at once.  At the head of the try block it comes
\* before or after tty.setcbreak.
Interrupt ==
    /\ pc \in RunningPcs \cup AfterLoopPcs \cup HandlerPcs \cup BeforeTryPcs \cup {"enter"}
    /\ kbi.n < InterruptsAllowed
    /\ \E mode \in (IF pc = "enter" THEN {"cooked", "cbreak"} ELSE {tty.mode}) :
          tty' = [tty EXCEPT !.mode = mode]
    /\ \E slept \in SleptBefore(pc) : now' = now + slept
    /\ kbi' = [n |-> kbi.n + 1,
               at |-> IF kbi.n = 0 THEN now' ELSE kbi.at,
               running |-> IF kbi.n = 0 THEN pc \in RunningPcs ELSE kbi.running]
    /\ pc' = IF pc \in RunningPcs \cup AfterLoopPcs \cup {"enter"} THEN "kbi_confirm"
             ELSE IF pc = "kbi_confirm" /\ settings.confirm_exit THEN "kbi_commit"
             ELSE IF pc \in HandlerPcs THEN "finally_raise"
             ELSE "raised"
    /\ outcome' = IF pc \in BeforeTryPcs THEN "Crashed"
                  ELSE IF pc \in HandlerPcs THEN outcome
                  ELSE "Interrupted"
    /\ ev' = Ev("interrupt")
    /\ UNCHANGED <<audioVars, stats, settings, files, duration, idx, start_time, keys, sel,
                   updates, stops, gongs, ran, tick>>

\* an error other than an interrupt inside the body of the Running loop
Fault ==
    /\ pc \in {"tick_weather", "tick_input", "tick_sleep"}
    /\ pc' = "except"
    /\ outcome' = "Failed"
    /\ ev' = Ev("error")
    /\ UNCHANGED <<audioVars, now, stats, settings, files, duration, idx, start_time, keys,
                   sel, updates, stops, gongs, ran, kbi, tick, tty>>

\* FocusApp.__init__, and run() about to call phase_one_selection
SessionInit ==
    /\ now = 0
    /\ AudioInit
    /\ next_texture_interval = 30 * TicksPerSecond     \* one of the draws
    /\ ev = Ev("init")
    /\ stats = DefaultStats
    /\ settings \in SettingsFiles
    /\ pc = "select"
    /\ files = <<>>
    /\ duration = 0
    /\ idx = 1
    /\ start_time = -1
    /\ keys = 0
    /\ sel = [mode |-> "", valid |-> FALSE, entered |-> <<>>]
    /\ updates = <<>>
    /\ stops = <<>>
    /\ gongs = 0
    /\ ran = FALSE
    /\ kbi = [n |-> 0, at |-> -1, running |-> FALSE]
    /\ tick = [order |-> <<>>, elapsed |-> -1, shown |-> -1, key |-> ""]
    /\ tty = [mode |-> "cooked", restores |-> 0]
    /\ outcome = ""

Next ==
    \/ SelectQuick
    \/ SelectMenu
    \/ SelectAgain
    \/ StartAudio
    \/ ApplyWeather
    \/ Setup
    \/ SetupFault
    \/ Enter
    \/ TickTop
    \/ TickWeather
    \/ TickNoKey
    \/ TickKey
    \/ TickSleep
    \/ Commit
    \/ Fade
    \/ FadeWait
    \/ Gong
    \/ GongWait
    \/ Receipt
    \/ ExceptHandler
    \/ KbiConfirm
    \/ KbiCommit
    \/ KbiFade
    \/ KbiWait
    \/ Finally
    \/ Interrupt
    \/ Fault

Spec == SessionInit /\ [][Next]_vars

\* the sessions of an installation with the chime, the chime set and the
\* default volume step
LiveInit ==
    SessionInit /\ sfx = {"gong.mp3"} /\ settings.play_gong /\ settings # SteppedSettings

\* run() as a sequential program whose statements finish: a sleep ends when
\* the clock has advanced, a prompt is answered, a statement that can be
\* executed is executed
SpecLive == LiveInit /\ [][Next]_vars /\ WF_vars(Next)

(***************************************************************************)
(* Properties of a session (Spec).                                         *)
(***************************************************************************)
\* 60*d seconds in ticks, for a duration d given in hundredths of a minute
TicksOfMinutes(cm) == 6 * cm

\* C1: update_time is never invoked a second time for the same run(),
\* wherever the interrupts are signalled.
C1_AtMostOneCommit == Len(updates) <= 1

\* C2: a session interrupted once, inside the Running loop after its body
\* was entered, ends as Interrupted with stop_all invoked exactly once and
\* update_time invoked exactly once, with the time from the session's start
\* to the interrupt, whatever confirm_exit is.
C2_InterruptCommitsElapsedAtInterrupt ==
    (pc = "returned" /\ kbi.n = 1 /\ kbi.running /\ ran) =>
        /\ outcome = "Interrupted"
        /\ Len(stops) = 1
        /\ updates = <<kbi.at - start_time>>

\* C3: a session of a positive duration d that is never interrupted and meets
\* no error ends as Completed, with update_time invoked exactly once, with a
\* value at most one tick away from 60*d seconds.
C3_CompletedWithinOneTick ==
    (pc = "returned" /\ kbi.n = 0 /\ outcome # "Failed"
        /\ sel.entered # <<>> /\ sel.entered[1] > 0) =>
        /\ outcome = "Completed"
        /\ Len(updates) = 1
        /\ updates[1] - TicksOfMinutes(sel.entered[1]) \in -1..1

\* C4, as the specification states it: with an empty or invalid selection, in
\* the menu or in quick mode, no loop is started, the Running loop is not
\* executed, no chime is played and update_time is not called.
C4_EmptySelectionNeverRuns ==
    (sel.mode \in {"menu", "quick"} /\ ~sel.valid) =>
        /\ started = {} /\ playing = <<>>
        /\ ~ran
        /\ gongs = 0
        /\ updates = <<>>

\* C4, as the code has it: a menu selection with no known id ends run()
\* before anything is started (no loop, no Running loop, no chime, no call of
\* update_time); in quick mode an empty selection starts no loop, and the
\* session then runs in silence.
C4_EmptySelection ==
    /\ (sel.mode = "menu" /\ ~sel.valid) =>
          /\ pc = "returned" /\ outcome = "NoSession"
          /\ started = {} /\ playing = <<>>
          /\ ~ran /\ start_time = -1
          /\ gongs = 0
          /\ updates = <<>>
    /\ (sel.mode = "quick" /\ ~sel.valid) =>
          /\ files = <<>>
          /\ started = {} /\ playing = <<>>

\* a menu selection with no known id has ended run()
C4_MenuBailed ==
    /\ sel.mode = "menu" /\ ~sel.valid
    /\ pc = "returned" /\ now > 0

\* C5: the level set_master_volume stores is max(0, min(1, level)), and
\* master_volume is within [0, 1] after every key press, initial-volume input
\* and setter call.
C5_MasterVolumeClamped ==
    /\ master_volume >= 0 /\ master_volume <= 100
    /\ ev.op = "set_master_volume" =>
          master_volume = (IF ev.level < 0 THEN 0
                           ELSE IF ev.level > 100 THEN 100 ELSE ev.level)

\* a volume-down key at volume 0: the level passed is below 0
C5_KeyBelowZero ==
    /\ pc = "tick_sleep" /\ keys > 0
    /\ ev.op = "set_master_volume" /\ ev.level < 0
    /\ master_volume = 0

\* C12: after an error inside the Running loop, with no interrupt, run() is
\* in its "except Exception" handler or past it and never back in the loop;
\* stop_all is called exactly once, with a fade of 1000 ms; no chime is
\* played; run() returns and raises nothing.
C12_FaultEndsFailed ==
    (outcome = "Failed" /\ kbi.n = 0) =>
        /\ pc \in {"except", "finally", "returned"}
        /\ stops = (IF pc = "except" THEN <<>> ELSE <<1000>>)
        /\ gongs = 0

\* run() has returned after an error inside the Running loop
C12_FailedSession ==
    /\ outcome = "Failed" /\ kbi.n = 0 /\ ran
    /\ pc = "returned"

\* C13: when run() has returned from a session whose Running loop's body
\* was entered, update_time has been called, whether the session ended
\* Completed, Interrupted or Failed.
C13_CommittedAtTerminal ==
    (pc = "returned" /\ ran /\ outcome \in {"Completed", "Interrupted", "Failed"}) =>
        Len(updates) >= 1

\* C13 without the sessions that ended Failed
C13_CommittedUnlessFailed ==
    (pc = "returned" /\ ran /\ outcome \in {"Completed", "Interrupted"}) =>
        Len(updates) >= 1

\* C14: with the chime installed, a session that has ended has played the
\* chime if and only if it ended Completed with play_gong set; a session that
\* ends Interrupted or Failed has not played it; the chime is played after
\* stop_all and after the fade-out wait.
C14_ChimeIffCompleted ==
    /\ (pc \in {"returned", "raised"} /\ "gong.mp3" \in sfx /\ outcome # "Crashed") =>
          (gongs > 0 <=> (outcome = "Completed" /\ settings.play_gong))
    /\ outcome \in {"Interrupted", "Failed"} => gongs = 0
    /\ (ev.op = "play_gong" /\ ev.played # "") =>
          /\ stops # <<>> /\ playing = <<>>
          /\ updates # <<>>
          /\ now - start_time >= updates[1] + settings.fade_duration

\* C14 for the sessions in which no interrupt is signalled
C14_ChimeIffCompletedNoInterrupt ==
    kbi.n = 0 => C14_ChimeIffCompleted

C17_PlaybackErrorAbsorbed ==
    ev.op \in {"play_sound", "update_textures", "play_gong"} =>
        (~ev.raised /\ pc # "raised")

\* C18: no name occurs twice in the active-loop list, and no two channels of
\* the mixer play the same loop.
C18_OneLoopPerAsset ==
    /\ \A i, j \in 1..Len(playing) : i # j => playing[i] # playing[j]
    /\ \A c, d \in 1..NumChannels :
          (c # d /\ mixer[c].sound # "") => mixer[c].sound # mixer[d].sound

\* C19, as the specification states it: in the shutdown of a session that
\* ends Completed or Interrupted, update_time is called after stop_all and
\* after the wait of the fade.
C19_StopThenWaitThenCommit ==
    (ev.op = "update_time" /\ outcome # "Failed") =>
        /\ stops # <<>>
        /\ now - start_time >= settings.fade_duration

\* C19, as the code has it: in the shutdown of a session that has started
\* and does not end Failed, update_time is called first, stop_all at the same
\* instant after it, and the wait of the fade comes last.
C19_CommitThenStopThenWait ==
    (start_time >= 0 /\ outcome # "Failed") =>
        /\ Len(stops) <= Len(updates)
        /\ pc \in {"fade_wait", "kbi_wait"} =>
              /\ stops # <<>>
              /\ now - start_time = updates[Len(updates)]
        /\ pc \in {"gong", "gong_wait", "receipt"} =>
              /\ stops # <<>>
              /\ now - start_time >= updates[1] + settings.fade_duration

\* an interrupted session waits for its fade: the commit and stop_all are done
C19_InterruptedFade ==
    /\ pc = "kbi_wait" /\ ran /\ kbi.n = 1
    /\ Len(updates) = 1 /\ Len(stops) = 1

\* C20, as the specification states it: in a pass of the Running loop that
\* has published, the steps were the weather check, the handling of the
\* input, the computation of elapsed and the publication, in this order.
C20_ElapsedAfterInput ==
    (tick.order # <<>> /\ tick.order[Len(tick.order)] = "publish") =>
        tick.order = <<"weather", "input", "elapsed", "publish">>

\* C20, as the code has it: in a pass of the Running loop that has published,
\* the steps were the computation of elapsed, the weather check, the handling
\* of the input and the publication, in this order, and the elapsed shown is
\* the one computed at the head of the pass.
C20_ElapsedFirst ==
    /\ (tick.order # <<>> /\ tick.order[Len(tick.order)] = "publish") =>
          /\ tick.order = <<"elapsed", "weather", "input", "publish">>
          /\ tick.shown = tick.elapsed
    /\ pc = "tick_sleep" => tick.order = <<"elapsed", "weather", "input">>

\* a pass of the Running loop in which a key was handled has published
C20_PassPublished ==
    /\ pc = "tick_top" /\ keys > 0
    /\ tick.order # <<>> /\ tick.shown = tick.elapsed /\ tick.shown >= 0

\* the Running loop was left by its "break": the elapsed computed at the head
\* of a pass had reached the duration
C21_CompletionGuardFired ==
    /\ tick.elapsed >= 0
    /\ tick.elapsed >= duration * TicksPerSecond

\* C21: once the Running loop was left because the time was up, the session
\* ends Completed, with the chime played when it is set and installed, even
\* when an interrupt is signalled afterwards; a session that has started ends
\* Interrupted only when the interrupt was signalled inside the Running loop.
C21_GuardFixesTerminal ==
    /\ (pc \in {"returned", "raised"} /\ C21_CompletionGuardFired) =>
          /\ outcome = "Completed"
          /\ (settings.play_gong /\ "gong.mp3" \in sfx) => gongs > 0
    /\ (outcome = "Interrupted" /\ start_time >= 0) => kbi.running

\* C21 for the sessions in which no interrupt is signalled after the Running
\* loop was left
C21_GuardFixesTerminalInLoop ==
    (kbi.n = 0 \/ kbi.running) => C21_GuardFixesTerminal

\* the level a volume key asks for, within [0, 1]
C25_Stepped(by) ==
    IF master_volume + by > 100 THEN 100
    ELSE IF master_volume + by < 0 THEN 0 ELSE master_volume + by

\* C25: a pass of the Running loop reads at most one character; "+", "="
\* and "w" set the master volume to the volume plus the configured step,
\* "-" and "s" to the volume minus the step, within [0, 1]; every other
\* character leaves the master volume, the loops and the session as they were.
C25_KeysStepVolume ==
    [][pc = "tick_input" =>
          /\ keys' - keys \in {0, 1}
          /\ tick.key = ""
          /\ keys' = keys + 1 =>
                /\ pc' = "tick_sleep"
                /\ tick'.key \in {"+", "=", "w"} =>
                      master_volume' = C25_Stepped(settings.volume_step)
                /\ tick'.key \in {"-", "s"} =>
                      master_volume' = C25_Stepped(-settings.volume_step)
                /\ tick'.key \notin {"+", "=", "w", "-", "s"} =>
                      /\ master_volume' = master_volume
                      /\ playing' = playing /\ channels' = channels /\ mixer' = mixer
                /\ playing' = playing /\ channels' = channels
                /\ <<outcome', stats', updates', stops', gongs', duration', start_time'>>
                      = <<outcome, stats, updates, stops, gongs, duration, start_time>>]_vars

\* the key "=" was read at volume 0 with a step of 10
C25_EqualsKeyRead ==
    /\ pc = "tick_sleep" /\ tick.key = "="
    /\ settings.volume_step = 10
    /\ ev.op = "set_master_volume" /\ ev.level = 10 /\ master_volume = 10

\* C29: run() never ends, by returning or by letting an error or an interrupt
\* through, while a loop it started is still active: when it has ended,
\* stop_all has emptied the active-loop list and no channel plays a loop.
C29_NeverEndsWithLoopsActive ==
    pc \in {"returned", "raised"} =>
        /\ playing = <<>>
        /\ \A c \in 1..NumChannels : mixer[c].sound = ""
        /\ idx > 1 => stops # <<>>

\* C29 for the sessions that return from run()
C29_ReturnsWithLoopsStopped ==
    pc = "returned" =>
        /\ playing = <<>>
        /\ \A c \in 1..NumChannels : mixer[c].sound = ""
        /\ idx > 1 => stops # <<>>

C32_ClockStartsAtConstruction ==
    /\ pc \in BeforeTryPcs \cup {"enter"} => last_texture_time = 0
    /\ (ev.op = "update_textures" /\ ev.at = start_time) =>
          /\ ev.last = 0
          /\ ev.due <=> start_time > ev.interval
          /\ ev.due => last_texture_time = start_time

\* the first pass of a session that spent 100 s in the menu: it is due,
\* and a texture is played
C32_FirstPassDue ==
    /\ pc = "tick_input" /\ settings.dynamic_weather
    /\ ev.op = "update_textures" /\ ev.due /\ ev.played # ""
    /\ ev.at = start_time /\ start_time = 1000 /\ ev.interval = 30 * TicksPerSecond

\* the names in a list
C24_Names(list) == {list[i] : i \in 1..Len(list)}

\* C24: inside the Running loop self.playing is the list selected and
\* self.channels holds the names selected, none of them a texture; no step
\* taken inside the loop (a texture fired, a volume key, another key, the
\* display) changes self.playing or self.channels; once the session has
\* started they change only in stop_all, which empties them.
C24_LoopsFixedWhileRunning ==
    [][/\ pc' \in RunningPcs =>
             /\ playing' = files'
             /\ DOMAIN channels' = C24_Names(files')
             /\ C24_Names(playing') \cap textures' = {}
       /\ pc \in RunningPcs => (playing' = playing /\ channels' = channels)
       /\ (start_time >= 0 /\ (playing' # playing \/ channels' # channels)) =>
             /\ ev'.op = "stop_all"
             /\ playing' = <<>> /\ channels' = <<>>]_vars

\* a texture was fired inside the Running loop with the selected loop active
C24_TextureFiredWhileRunning ==
    /\ pc = "tick_input"
    /\ ev.op = "update_textures" /\ ev.played # ""
    /\ files # <<>> /\ playing = files

(***************************************************************************)
(* Properties of the mixer (SpecMixer).                                    *)
(***************************************************************************)
\* C6: the set of active loops (playing) is the set of loops started since
\* the most recent stop_all, or since construction.
C6_PlayingIsStartedSinceStop ==
    {playing[i] : i \in 1..Len(playing)} = started

\* a loop was started while another one was active
C6_TwoLoopsStarted ==
    /\ ev.op = "play_sound" /\ ev.played # ""
    /\ Cardinality(started) = 2

\* C16: play_sound with a name that is not a key of the loop catalog raises
\* no error and leaves the active-loop list, the channel map, the mixer's
\* channels and the master volume as they were.
C16_UnknownLoopIsNoOp ==
    [][(ev'.op = "play_sound" /\ ev'.file \notin sounds) =>
          /\ ~ev'.raised
          /\ playing' = playing /\ channels' = channels
          /\ mixer' = mixer /\ master_volume' = master_volume]_vars

\* play_sound was called with an unknown name while a loop was active
C16_UnknownLoopAsked ==
    /\ ev.op = "play_sound" /\ ev.file = "missing.mp3" /\ ev.played = ""
    /\ playing # <<>>

\* C11: stop_all raises no error and leaves the active-loop list and the
\* channel map empty; called with no active loop (on a new mixer, or right
\* after another stop_all) it leaves them, and the mixer's channels, as they
\* were.
C11_StopAllIdempotent ==
    [][ev'.op = "stop_all" =>
          /\ ~ev'.raised
          /\ playing' = <<>> /\ channels' = <<>>
          /\ playing = <<>> =>
                (playing' = playing /\ channels' = channels /\ mixer' = mixer)]_vars

\* stop_all called with no active loop
C11_StopAllOnEmpty ==
    /\ ev.op = "stop_all" /\ ev.count = 0
    /\ playing = <<>> /\ channels = <<>>

\* the channels self.channels holds
C23_Tracked == {channels[f] : f \in DOMAIN channels}

\* C23: after every call, every channel that self.channels holds and that is
\* busy has the master volume as its volume; set_master_volume applies the
\* new level in the call itself, and leaves a channel that self.channels
\* holds and that is no longer busy as it was (its volume is not changed
\* and it is not started again).
C23_BusyChannelsAtMaster ==
    [][/\ \A c \in C23_Tracked' :
             mixer'[c].sound # "" => mixer'[c].vol = master_volume'
       /\ ev'.op = "set_master_volume" =>
             \A c \in C23_Tracked :
                mixer[c].sound = "" => mixer'[c] = mixer[c]]_vars

\* set_master_volume called with one loop playing and another one ended: the
\* first has the new level, the second the level it ended with
C23_OneBusyOneEnded ==
    /\ ev.op = "set_master_volume" /\ master_volume = 35
    /\ \E c, d \in C23_Tracked :
          /\ mixer[c].sound # "" /\ mixer[c].vol = 35
          /\ mixer[d].sound = "" /\ mixer[d].vol = 100

(***************************************************************************)
(* Properties of the texture scheduler (SpecWeather).                      *)
(***************************************************************************)
\* C7: at every fire, the time since last_texture_time is at least the
\* interval that was in force before the fire, not the one the fire draws.
C7_NeverFiresEarly ==
    (ev.op = "update_textures" /\ ev.due) => ev.at - ev.last >= ev.interval

\* a second fire: its interval was drawn by the fire before it
C7_SecondFire ==
    /\ ev.op = "update_textures" /\ ev.due
    /\ ev.last > 0

\* the pool of one loop, by the rule of C8: "gentle rain" contains the
\* category name "gentle rain"; "rain" is contained in "gentle rain" and in
\* "rain sounds"; "typing sound" and no category name contain each other
C8_PoolOf(loop_file) ==
    CASE loop_file = "gentle-rain.mp3" ->
            <<"distant-thunder.mp3", "winter-wind.mp3", "wind-chimes.mp3">>
      [] loop_file = "Rain.ogg" ->
            <<"distant-thunder.mp3", "winter-wind.mp3", "wind-chimes.mp3",
              "distant-thunder.mp3", "winter-wind.mp3">>
      [] OTHER -> <<>>

RECURSIVE C8_Pool(_)
C8_Pool(loops) ==
    IF loops = <<>> THEN <<>> ELSE C8_PoolOf(Head(loops)) \o C8_Pool(Tail(loops))

\* C8: at a fire the candidate pool is the concatenation, over the active
\* loops and the categories each one matches, of the categories' lists; the
\* texture chosen is in it; with only gentle-rain.mp3 active the pool is
\* distant-thunder.mp3, winter-wind.mp3, wind-chimes.mp3.
C8_PoolAndChoice ==
    (ev.op = "update_textures" /\ ev.due) =>
        /\ ValidTextures(playing) = C8_Pool(playing)
        /\ ev.file # "" =>
              \E i \in 1..Len(C8_Pool(playing)) : C8_Pool(playing)[i] = ev.file
        /\ playing = <<"gentle-rain.mp3">> =>
              /\ ValidTextures(playing) =
                    <<"distant-thunder.mp3", "winter-wind.mp3", "wind-chimes.mp3">>
              /\ ev.file \in {"distant-thunder.mp3", "winter-wind.mp3", "wind-chimes.mp3"}

\* a fire with a loop whose name is contained in two category names
C8_FireWithRainLoop ==
    /\ ev.op = "update_textures" /\ ev.due
    /\ playing = <<"Rain.ogg">>
    /\ ev.played = "wind-chimes.mp3"

\* C9, as the specification states it: the volume of a fired texture is
\* strictly between 0.3 and 0.6 of master_volume.
C9_VolumeStrictlyBetween ==
    (ev.op = "update_textures" /\ ev.played # "") =>
        /\ ev.vol > 300 * master_volume
        /\ ev.vol < 600 * master_volume

\* C9, as the code has it: the volume of a fired texture is at least 0.3 and
\* at most 0.6 of master_volume.
C9_VolumeBetween ==
    (ev.op = "update_textures" /\ ev.played # "") =>
        /\ ev.vol >= 300 * master_volume
        /\ ev.vol <= 600 * master_volume

\* a texture fired at a master volume above 0
C9_TextureFired ==
    /\ ev.op = "update_textures" /\ ev.played # ""
    /\ master_volume = 35
    /\ ev.vol = 35 * 450

\* C10: a due tick sets last_texture_time to now and draws
\* next_texture_interval from the current range, whether or not a texture is
\* played; a texture is played only when the pool is not empty and the
\* candidate chosen is in the catalog.
C10_DueTickAdvances ==
    (ev.op = "update_textures" /\ ev.due) =>
        /\ last_texture_time = ev.at
        /\ next_texture_interval >= weather_freq_range[1] * TicksPerSecond
        /\ next_texture_interval <= weather_freq_range[2] * TicksPerSecond
        /\ ev.played # "" =>
              /\ ValidTextures(playing) # <<>>
              /\ ev.played = ev.file
              /\ ev.played \in textures
        /\ (\A i \in 1..Len(playing) : playing[i] = "typing-sound.mp3") => ev.played = ""
        /\ ev.file \notin textures => ev.played = ""

\* a due tick whose chosen candidate is not in the catalog
C10_ChosenNotInstalled ==
    /\ ev.op = "update_textures" /\ ev.due
    /\ ev.file = "winter-wind.mp3" /\ ev.played = ""
    /\ ev.at > ev.last /\ last_texture_time = ev.at

\* C22, as the specification states it: a tick is a no-op only when the time
\* since last_texture_time is below next_texture_interval; a tick at which
\* the two are equal is due.
C22_DueAtThreshold ==
    ev.op = "update_textures" => (ev.due <=> ev.at - ev.last >= ev.interval)

\* C22, as the code has it: a tick is due only when the time since
\* last_texture_time is strictly above next_texture_interval; a tick at which
\* the two are equal is a no-op that leaves both fields as they were, and a
\* due tick sets last_texture_time to now.
C22_DueAboveThreshold ==
    ev.op = "update_textures" =>
        /\ ev.due <=> ev.at - ev.last > ev.interval
        /\ ~ev.due =>
              /\ ev.played = "" /\ ev.file = ""
              /\ last_texture_time = ev.last
              /\ next_texture_interval = ev.interval
        /\ ev.due => last_texture_time = ev.at

\* a tick at the instant at which the interval has just passed, with a loop
\* active: nothing is done
C22_TickAtThreshold ==
    /\ ev.op = "update_textures" /\ ~ev.due
    /\ ev.at - ev.last = ev.interval
    /\ playing # <<>>

\* C26, as the specification states it: the loop sea-breeze matches the
\* category "Sea Wave", and a fire with that loop active chooses from the
\* textures of "Sea Wave".
C26_SeaBreezeMatchesSeaWave ==
    (ev.op = "update_textures" /\ ev.due /\ playing = <<"sea-breeze.mp3">>) =>
        /\ Matches("sea-breeze.mp3", "Sea Wave")
        /\ ev.file \in {"seagull.mp3", "distant-foghorn.mp3", "winter-wind.mp3"}

\* the categories the loop sea-breeze matches
C26_SeaBreezeCategories ==
    {k \in 1..Len(TEXTURE_MAP) : Matches("sea-breeze.mp3", TEXTURE_MAP[k].key)}

\* C26, as the code has it: neither of "sea breeze" and "sea wave" is part of
\* the other, and the loop sea-breeze matches no category; a fire with only
\* that loop active has no candidate, chooses and plays nothing, and advances
\* the timestamp as every due tick does.
C26_SeaBreezeMatchesNothing ==
    /\ C26_SeaBreezeCategories = {}
    /\ (ev.op = "update_textures" /\ ev.due /\ playing = <<"sea-breeze.mp3">>) =>
          /\ ValidTextures(playing) = <<>>
          /\ ev.file = "" /\ ev.played = ""
          /\ last_texture_time = ev.at

\* a fire with only the loop sea-breeze active
C26_FireWithSeaBreeze ==
    /\ ev.op = "update_textures" /\ ev.due /\ ev.at > ev.last
    /\ playing = <<"sea-breeze.mp3">>

\* C27: set_weather_frequency sets the range to (60, 120) for "low", to
\* (30, 90) for "medium" and to (15, 45) for "high", in any case of the
\* letters, and to (30, 90) for every other name; the range is always one of
\* these three.
C27_PresetRanges ==
    /\ weather_freq_range \in {<<60, 120>>, <<30, 90>>, <<15, 45>>}
    /\ ev.op = "set_weather_frequency" =>
          weather_freq_range =
             (CASE ev.file = "low" -> <<60, 120>>
                [] ev.file = "medium" -> <<30, 90>>
                [] ev.file = "HIGH" -> <<15, 45>>
                [] OTHER -> <<30, 90>>)

\* the level "HIGH" was set while an interval drawn from a wider range is
\* waited for
C27_UpperCaseLevelSet ==
    /\ ev.op = "set_weather_frequency" /\ ev.file = "HIGH"
    /\ weather_freq_range = <<15, 45>>
    /\ next_texture_interval > 45 * TicksPerSecond

\* C28: next_texture_interval changes only in a due tick of update_textures,
\* which draws it from the range in force at that tick; the interval a tick
\* is tested against is the one drawn before it, and for the first fire the
\* one drawn at construction from (30, 90); set_weather_frequency leaves
\* next_texture_interval and last_texture_time as they were.
C28_IntervalDrawnAtFires ==
    [][/\ next_texture_interval' # next_texture_interval =>
             (ev'.op = "update_textures" /\ ev'.due)
       /\ ev'.op = "set_weather_frequency" =>
             /\ next_texture_interval' = next_texture_interval
             /\ last_texture_time' = last_texture_time
       /\ ev'.op = "update_textures" => ev'.interval = next_texture_interval
       /\ (ev'.op = "update_textures" /\ ev'.due) =>
             /\ weather_freq_range' = weather_freq_range
             /\ next_texture_interval' >= weather_freq_range[1] * TicksPerSecond
             /\ next_texture_interval' <= weather_freq_range[2] * TicksPerSecond
             /\ last_texture_time = 0 =>
                   /\ next_texture_interval >= 30 * TicksPerSecond
                   /\ next_texture_interval <= 90 * TicksPerSecond]_vars

\* the first fire of a scheduler set to "low" before it: it came after the
\* 30 s drawn at construction, and drew its interval from (60, 120)
C28_FirstFireAfterPreset ==
    /\ ev.op = "update_textures" /\ ev.due /\ ev.last = 0
    /\ weather_freq_range = <<60, 120>>
    /\ ev.interval = 30 * TicksPerSecond
    /\ next_texture_interval >= 60 * TicksPerSecond

(***************************************************************************)
(* Properties of the statistics (SpecStats).                               *)
(***************************************************************************)
\* C30: from the default stats, update_time with seconds <= 0 changes
\* nothing; total_seconds is never negative, and a positive commit adds its
\* seconds to it; current_streak is at least 1 whenever last_session_date is
\* set; a positive commit on the day of the last one leaves current_streak
\* as it was, one on the day after adds 1 to it, one after a longer gap
\* sets it to 1; reset_stats restores the default stats.
C30_StatsArithmetic ==
    [][/\ stats'.total_seconds >= 0
       /\ stats'.last_session_date # NoDate => stats'.current_streak >= 1
       /\ (ev'.op = "update_time" /\ ev'.level <= 0) => stats' = stats
       /\ (ev'.op = "update_time" /\ ev'.level > 0) =>
             /\ stats'.total_seconds = stats.total_seconds + ev'.level
             /\ stats'.last_session_date = DayOf(now)
             /\ stats.last_session_date = DayOf(now) =>
                   stats'.current_streak = stats.current_streak
             /\ (stats.last_session_date # NoDate
                    /\ DayOf(now) - stats.last_session_date = 1) =>
                   stats'.current_streak = stats.current_streak + 1
             /\ (stats.last_session_date # NoDate
                    /\ DayOf(now) - stats.last_session_date > 1) =>
                   stats'.current_streak = 1
       /\ ev'.op = "reset_stats" => stats' = DefaultStats]_vars

\* a streak of 3 days: positive commits on three days in a row, the last one
\* just made
C30_StreakOfThree ==
    /\ ev.op = "update_time" /\ ev.level > 0
    /\ stats.current_streak = 3
    /\ stats.last_session_date = Today + 2

====
